---------------------------- MODULE Spec2Model ----------------------------
(***************************************************************************)
(* Model of camtrack/corners.py: the corner tracking loop (_build_impl),   *)
(* the storage builder, the spatial deduplicator (_filter_close_corners)   *)
(* and the pyramid builder (_build_pyramid_for_frame).                     *)
(*                                                                         *)
(* Coordinates are integers counting 1/SubPx of a pixel, so that float     *)
(* positions, the truncation np.int32(point) and the comparison diff < 1   *)
(* keep their meaning.  Sequences are 1-based; index j here is index j-1   *)
(* of the Python list or array.  The ids array of shape (k, 1) is the      *)
(* sequence of its k integers.                                             *)
(***************************************************************************)
EXTENDS Integers, Sequences, FiniteSets, TLC

---------------------------------------------------------------------------
(* Program constants                                                       *)

CORNER_MIN_DISTANCE_PX == 10

CORNERS_UPDATE_FREQUENCY_FRAMES == 1

(* Bounds of the model                                                     *)

\* longest frame sequence
MaxFrames == 3
\* most candidates the per-level detection primitive yields for one frame
MaxRaw == 2
\* sub-pixel units per pixel
SubPx == 2
\* detector candidates lie at x = 0, GridStep, ..., GridCells * GridStep px
GridStep == 6
GridCells == 2
\* image size in pixels
ImageW == 24
ImageH == 4
\* most points a frame carries (the detector's yield is capped to fit)
MaxPoints == 3
\* deduplicator inputs: longest list, largest coordinate, largest radius
MaxLen == 3
MaxCoord == 2
MaxRadius == 2
\* pyramid inputs: largest frame height and width, and the number of
\* levels after which the list is not extended any more
MaxDim == 9
MaxLevels == 5

---------------------------------------------------------------------------
(* Arithmetic helpers                                                      *)

Abs(a) == IF a < 0 THEN -a ELSE a

Max2(a, b) == IF a >= b THEN a ELSE b

SetMax(S) == CHOOSE m \in S : \A k \in S : k <= m

AddPt(p, o) == <<p[1] + o[1], p[2] + o[2]>>

\* np.int32(c) of a float coordinate: truncation toward zero, in pixels
ToInt32(c) == IF c >= 0 THEN c \div SubPx ELSE -((-c) \div SubPx)

\* utils.coerce_in(value, low, high)
coerce_in(v, lo, hi) == IF v < lo THEN lo ELSE IF v > hi THEN hi ELSE v

\* list(range(a, b))
RangeSeq(a, b) == [k \in 1..Max2(b - a, 0) |-> a + k - 1]

---------------------------------------------------------------------------
(* Spatial deduplicator: _filter_close_corners                             *)

Manhattan(p, q) == Abs(p[1] - q[1]) + Abs(p[2] - q[2])

\* variant of the pair predicate: the tree built with metric='chebyshev'
within_radius_chebyshev(p, q, radius) ==
    Max2(Abs(p[1] - q[1]), Abs(p[2] - q[2])) <= radius

\* the pair predicate of KDTree(metric='manhattan').query_radius
within_radius(p, q, radius) == Manhattan(p, q) <= radius

\* neighbours[i]: the indices of the points within radius of corners[i]
query_radius(corners, radius) ==
    [i \in 1..Len(corners) |->
        {j \in 1..Len(corners) : within_radius(corners[i], corners[j], radius)}]

\* used = np.ones(len(corners), dtype=bool)
used_initial(n) == [k \in 1..n |-> TRUE]

\* the loop over enumerate(neighbours), from group_index g on
RECURSIVE filter_loop(_, _, _, _, _)
filter_loop(corners, neighbours, used, result, g) ==
    IF g > Len(corners) THEN result
    ELSE IF ~used[g]
         THEN filter_loop(corners, neighbours, used, result, g + 1)
         ELSE LET used2 == [k \in DOMAIN used |->
                               IF k \in neighbours[g] THEN TRUE ELSE used[k]]
                  most_accurate_point_index == SetMax(neighbours[g])
              IN filter_loop(corners, neighbours, used2,
                             Append(result, corners[most_accurate_point_index]),
                             g + 1)

filter_close_corners(corners, radius) ==
    filter_loop(corners, query_radius(corners, radius),
                used_initial(Len(corners)), <<>>, 1)

---------------------------------------------------------------------------
(* Detection                                                               *)

\* _get_corners_for_frame: the candidates of all pyramid levels, rescaled
\* and concatenated (raw_corners), go through the deduplicator
get_corners_for_frame(raw_corners) ==
    filter_close_corners(raw_corners, CORNER_MIN_DISTANCE_PX * SubPx)

\* _to_frame_corners: ids default to 0 .. len(corners)-1
to_frame_corners(corners, ids) == [ids |-> ids, points |-> corners]

default_ids(corners) == RangeSeq(0, Len(corners))

---------------------------------------------------------------------------
(* Tracking step helpers                                                   *)

\* diff = abs(prev_points - back_optical_flow).reshape(-1, 2).max(-1)
round_trip_diff(p, b) == Max2(Abs(p[1] - b[1]), Abs(p[2] - b[2]))

\* variants of the validity test: one pixel of error still valid; the
\* forward status taken into account
is_good_or_equal(d, status) == d <= 1 * SubPx

is_good_and_status(d, status) == d < 1 * SubPx /\ status

\* is_good = diff < 1 (one pixel); the status the forward call returned
\* under the same name is overwritten by this assignment
is_good_at(d, status) == d < 1 * SubPx

\* variant of the rectangle: the slices of mask[...] in the other order,
\* columns first
masked_by_swapped(point, x, y) ==
    LET px == ToInt32(point[1])
        py == ToInt32(point[2])
        y_from == coerce_in(py - CORNER_MIN_DISTANCE_PX, 0, ImageH)
        y_to == coerce_in(py + CORNER_MIN_DISTANCE_PX, 0, ImageH) + 1
        x_from == coerce_in(px - CORNER_MIN_DISTANCE_PX, 0, ImageW)
        x_to == coerce_in(px + CORNER_MIN_DISTANCE_PX, 0, ImageW) + 1
    IN x_from <= y /\ y < x_to /\ y_from <= x /\ x < y_to

\* the rectangle _update_mask zeroes around a tracked point, in pixels
masked_by(point, x, y) ==
    LET px == ToInt32(point[1])
        py == ToInt32(point[2])
        y_from == coerce_in(py - CORNER_MIN_DISTANCE_PX, 0, ImageH)
        y_to == coerce_in(py + CORNER_MIN_DISTANCE_PX, 0, ImageH) + 1
        x_from == coerce_in(px - CORNER_MIN_DISTANCE_PX, 0, ImageW)
        x_to == coerce_in(px + CORNER_MIN_DISTANCE_PX, 0, ImageW) + 1
    IN y_from <= y /\ y < y_to /\ x_from <= x /\ x < x_to

\* mask[y, x] after _update_mask ran for every point of tracked
mask_at(tracked, x, y) ==
    \A k \in 1..Len(tracked) : ~masked_by(tracked[k], x, y)

\* new_points_filtered: the new points whose pixel the mask still allows
RECURSIVE filter_by_mask(_, _, _)
filter_by_mask(new_points, tracked, k) ==
    IF k > Len(new_points) THEN <<>>
    ELSE LET rest == filter_by_mask(new_points, tracked, k + 1)
             x == ToInt32(new_points[k][1])
             y == ToInt32(new_points[k][2])
         IN IF mask_at(tracked, x, y) THEN <<new_points[k]>> \o rest ELSE rest

\* the loop over enumerate(optical_flow): the ids and points of the good
\* tracks, or an IndexError when prev_ids has no entry for a good point
RECURSIVE track_loop(_, _, _, _, _)
track_loop(flow, good, pids, j, acc) ==
    IF j > Len(flow) THEN acc
    ELSE IF ~good[j] THEN track_loop(flow, good, pids, j + 1, acc)
    ELSE IF j > Len(pids) THEN [acc EXCEPT !.raised = TRUE]
    ELSE track_loop(flow, good, pids, j + 1,
                    [acc EXCEPT !.ids = Append(@, pids[j]),
                                !.points = Append(@, flow[j])])

\* frame_sequence[0] of a sequence of n frames raises IndexError
first_frame_missing(n) == n = 0

\* calcOpticalFlowPyrLK(prevImg, nextImg, prevPts): with points to track it
\* raises cv2.error when the two images differ in size
flow_rejects(same_shape, n_prev) == ~same_shape /\ n_prev > 0

\* variant of the fresh ids: start_index = ids[-1][0], without the + 1
fresh_ids_from_last(last_id, count) ==
    LET start_index == last_id
        end_index == start_index + count - 1
    IN RangeSeq(start_index, end_index)

\* start_index = ids[-1][0] + 1; end_index = start_index + count - 1;
\* the ids of range(start_index, end_index)
fresh_ids(last_id, count) ==
    LET start_index == last_id + 1
        end_index == start_index + count - 1
    IN RangeSeq(start_index, end_index)

---------------------------------------------------------------------------
(* Pyramid builder: a frame is its shape <<height, width>>                 *)

Min2(a, b) == IF a <= b THEN a ELSE b

\* _diminish_frame_size: cv2.pyrDown(frame) with the default output size,
\* ((cols + 1) / 2, (rows + 1) / 2); the docstring names the shape
\* (height // 2, width // 2), which is this one for even sizes only
diminish_frame_size(frame) ==
    <<(frame[1] + 1) \div 2, (frame[2] + 1) \div 2>>

\* size_threshold = int(min(height, width) * 0.25)
size_threshold(frame) == Min2(frame[1], frame[2]) \div 4

\* frame_is_large_enough(cur_frame) in the pyramid of frame
frame_is_large_enough(cur_frame, frame) ==
    /\ cur_frame[1] > size_threshold(frame)
    /\ cur_frame[2] > size_threshold(frame)

\* list(reversed(out))
reversed(out) == [k \in 1..Len(out) |-> out[Len(out) + 1 - k]]

---------------------------------------------------------------------------
(* State                                                                   *)

VARIABLES
    NumFrames,          \* len(frame_sequence)
    progress,           \* build's progress flag
    pc,                 \* "init", "tracking", "return", "done", "error", "idle"
    error,              \* the exception that ended the run, or "none"
    frame_index,        \* index of the frame the loop handles next
    prev_ids,           \* ids retained from the previous frame
    prev_points,        \* prev_corners.points
    builder_corners,    \* _CornerStorageBuilder._corners: frame -> corners
    calls,              \* the frame arguments of set_corners_at_frame, in order
    progress_n,         \* total passed to progress_indicator.update
    storage,            \* the sequence build_corner_storage returns
    optical_flow,       \* forward estimates of the last tracking step
    diff,               \* round-trip errors of the last tracking step
    new_points_filtered,\* new points the last step accepted
    issued,             \* every id put into an emitted frame so far
    retired,            \* <<id, i>>: the track of id failed validation at frame i
    detected_any,       \* some detection call so far yielded a candidate
    shape_mismatch,     \* some frame handled so far differs in size from frame 0
    flow_invoked,       \* calcOpticalFlowPyrLK calls entered by the last step
    new_points,         \* _get_corners_for_frame(image) of the last step
    twin_corners,       \* _corners of a builder made with the other progress flag
    twin_n,             \* total passed to that builder's progress indicator
    twin_storage,       \* the sequence that builder returns
    dd_pc,              \* deduplicator harness: "off", "input", "once", "twice"
    dd_corners,         \* deduplicator input
    dd_radius,          \* deduplicator radius
    dd_result,          \* _filter_close_corners(dd_corners, dd_radius)
    dd_again,           \* _filter_close_corners(dd_result, dd_radius)
    py_pc,              \* pyramid harness: "off", "start", "loop", "done"
    py_frame,           \* shape of the frame given to _build_pyramid_for_frame
    py_out,             \* out, as the list of the shapes of its frames
    py_diminished,      \* shape of diminished_frame
    py_result           \* the list returned

track_vars == <<NumFrames, progress, pc, error, frame_index, prev_ids,
                prev_points, builder_corners, calls, progress_n, storage,
                optical_flow, diff, new_points_filtered, issued, retired,
                detected_any, shape_mismatch, flow_invoked, new_points,
                twin_corners, twin_n, twin_storage>>

dd_vars == <<dd_pc, dd_corners, dd_radius, dd_result, dd_again>>

py_vars == <<py_pc, py_frame, py_out, py_diminished, py_result>>

vars == <<track_vars, dd_vars, py_vars>>

---------------------------------------------------------------------------
(* Inputs                                                                  *)

\* positions the detector can report: integer pixels on the line y = 0
DetPoints == {<<k * GridStep * SubPx, 0>> : k \in 0..GridCells}

\* candidate lists of at most n points (and at most MaxRaw)
RawListsUpTo(n) ==
    UNION {[1..m -> DetPoints] : m \in 0..(IF n < MaxRaw THEN n ELSE MaxRaw)}

\* forward flow of a frame: 1/SubPx px to the right, or GridStep px to the left
FwdOffsets == {<<1, 0>>, <<-(GridStep * SubPx), 0>>}

\* round-trip deviation of a point: 1/SubPx px in x, or one whole px in y
BackOffsets == {<<1, 0>>, <<0, -SubPx>>}

\* deduplicator inputs
DedupPoints == (0..MaxCoord) \X (0..MaxCoord)

DedupLists == UNION {[1..m -> DedupPoints] : m \in 0..MaxLen}

---------------------------------------------------------------------------
(* Storage builder                                                         *)

\* variant of the store: the assignment placed under the indicator test
store_if_indicator(store, indicator, frame, corners) ==
    IF indicator THEN (frame :> corners) @@ store ELSE store

\* self._corners[frame] = corners, in a builder whose progress indicator
\* is set (indicator) or None
store_corners(store, indicator, frame, corners) == (frame :> corners) @@ store

\* if self._progress_indicator is not None: update(1)
indicator_total(n, indicator) == IF indicator THEN n + 1 ELSE n

\* _CornerStorageBuilder.set_corners_at_frame, on the builder of this run
\* and on the twin builder, which build makes when progress is negated
set_corners_at_frame(frame, corners) ==
    /\ builder_corners' = store_corners(builder_corners, progress, frame, corners)
    /\ calls' = Append(calls, frame)
    /\ progress_n' = indicator_total(progress_n, progress)
    /\ twin_corners' = store_corners(twin_corners, ~progress, frame, corners)
    /\ twin_n' = indicator_total(twin_n, ~progress)

\* sorted(self._corners.items()), values only
RECURSIVE sorted_items(_, _)
sorted_items(d, keys) ==
    IF keys = {} THEN <<>>
    ELSE LET k == CHOOSE m \in keys : \A o \in keys : m <= o
         IN <<d[k]>> \o sorted_items(d, keys \ {k})

---------------------------------------------------------------------------
(* Initial states                                                          *)

TrackIdle ==
    /\ NumFrames = 0 /\ progress = FALSE /\ pc = "idle" /\ error = "none"
    /\ frame_index = 0 /\ prev_ids = <<>> /\ prev_points = <<>>
    /\ builder_corners = <<>> /\ calls = <<>> /\ progress_n = 0
    /\ storage = <<>> /\ optical_flow = <<>> /\ diff = <<>>
    /\ new_points_filtered = <<>> /\ issued = {} /\ retired = {}
    /\ detected_any = FALSE /\ shape_mismatch = FALSE /\ flow_invoked = 0
    /\ new_points = <<>>
    /\ twin_corners = <<>> /\ twin_n = 0 /\ twin_storage = <<>>

DedupOff ==
    /\ dd_pc = "off" /\ dd_corners = <<>> /\ dd_radius = 0
    /\ dd_result = <<>> /\ dd_again = <<>>

PyramidOff ==
    /\ py_pc = "off" /\ py_frame = <<0, 0>> /\ py_out = <<>>
    /\ py_diminished = <<0, 0>> /\ py_result = <<>>

\* build(frame_sequence, progress) entered, builder constructed
Init ==
    /\ NumFrames \in 0..MaxFrames
    /\ progress \in BOOLEAN
    /\ pc = "init" /\ error = "none"
    /\ frame_index = 0 /\ prev_ids = <<>> /\ prev_points = <<>>
    /\ builder_corners = <<>> /\ calls = <<>> /\ progress_n = 0
    /\ storage = <<>> /\ optical_flow = <<>> /\ diff = <<>>
    /\ new_points_filtered = <<>> /\ issued = {} /\ retired = {}
    /\ detected_any = FALSE /\ shape_mismatch = FALSE /\ flow_invoked = 0
    /\ new_points = <<>>
    /\ twin_corners = <<>> /\ twin_n = 0 /\ twin_storage = <<>>
    /\ DedupOff
    /\ PyramidOff

\* _filter_close_corners about to be called on some list with some radius
InitDedup ==
    /\ TrackIdle
    /\ dd_pc = "input"
    /\ dd_corners \in DedupLists
    /\ dd_radius \in 0..MaxRadius
    /\ dd_result = <<>> /\ dd_again = <<>>
    /\ PyramidOff

\* _build_pyramid_for_frame about to be called on a frame of some shape
InitPyramid ==
    /\ TrackIdle
    /\ DedupOff
    /\ py_pc = "start"
    /\ py_frame \in (1..MaxDim) \X (1..MaxDim)
    /\ py_out = <<>> /\ py_diminished = <<0, 0>> /\ py_result = <<>>

---------------------------------------------------------------------------
(* _build_impl                                                             *)

\* frame 0: detect, number the corners from 0, hand them to the builder
DetectFirstFrame ==
    /\ pc = "init"
    /\ IF first_frame_missing(NumFrames)
       THEN /\ pc' = "error" /\ error' = "IndexError:88"
            /\ UNCHANGED <<frame_index, prev_ids, prev_points,
                           builder_corners, calls, progress_n, issued,
                           detected_any, new_points, twin_corners, twin_n>>
       ELSE /\ \E raw \in RawListsUpTo(MaxPoints) :
                LET corners == get_corners_for_frame(raw)
                    frame_corners ==
                        to_frame_corners(corners, default_ids(corners))
                IN /\ set_corners_at_frame(0, frame_corners)
                   /\ prev_points' = frame_corners.points
                   /\ prev_ids' = frame_corners.ids
                   /\ issued' = {frame_corners.ids[k] :
                                    k \in 1..Len(frame_corners.ids)}
                   /\ detected_any' = (raw # <<>>)
                   /\ new_points' = corners
            /\ frame_index' = 1
            /\ pc' = IF 1 < NumFrames THEN "tracking" ELSE "return"
            /\ error' = error
    /\ UNCHANGED <<NumFrames, progress, storage, optical_flow, diff,
                   new_points_filtered, retired, shape_mismatch,
                   flow_invoked, twin_storage, dd_vars, py_vars>>

\* one iteration of the loop over frame_sequence[1:]; same_shape tells
\* whether the frame has the size of frame 0
TrackFrame ==
    /\ pc = "tracking"
    /\ \E same_shape \in BOOLEAN :
        /\ shape_mismatch' = (shape_mismatch \/ ~same_shape)
        /\ IF flow_rejects(same_shape, Len(prev_points))
           THEN \* the forward call raises
                /\ pc' = "error" /\ error' = "cv2.error:101"
                /\ flow_invoked' = 1
                /\ UNCHANGED <<frame_index, prev_ids, prev_points,
                               builder_corners, calls, progress_n,
                               optical_flow, diff, new_points_filtered,
                               issued, retired, detected_any, new_points,
                               twin_corners, twin_n>>
           ELSE /\ flow_invoked' = 2
                /\ \E fwd \in FwdOffsets,
                      back \in [1..Len(prev_points) -> BackOffsets],
                      status \in [1..Len(prev_points) -> BOOLEAN] :
                    LET n_prev == Len(prev_points)
                        flow == [j \in 1..n_prev |->
                                    AddPt(prev_points[j], fwd)]
                        back_optical_flow ==
                            [j \in 1..n_prev |->
                                AddPt(prev_points[j], back[j])]
                        d == [j \in 1..n_prev |->
                                 round_trip_diff(prev_points[j],
                                                 back_optical_flow[j])]
                        is_good == [j \in 1..n_prev |->
                                       is_good_at(d[j], status[j])]
                        tracked ==
                            track_loop(flow, is_good, prev_ids, 1,
                                [ids |-> <<>>, points |-> <<>>,
                                 raised |-> FALSE])
                        update ==
                            frame_index % CORNERS_UPDATE_FREQUENCY_FRAMES = 0
                    IN \E raw \in
                           RawListsUpTo(MaxPoints - Len(tracked.points)) :
                        LET detected == get_corners_for_frame(raw)
                            accepted ==
                                IF update
                                THEN filter_by_mask(detected,
                                                    tracked.points, 1)
                                ELSE <<>>
                            points == tracked.points \o accepted
                            ids == IF update /\ tracked.ids # <<>>
                                   THEN tracked.ids \o
                                        fresh_ids(
                                            tracked.ids[Len(tracked.ids)],
                                            Len(accepted))
                                   ELSE tracked.ids
                            new_corners == to_frame_corners(points, ids)
                        IN /\ optical_flow' = flow
                           /\ diff' = d
                           /\ retired' = retired \cup
                                  {<<prev_ids[j], frame_index>> :
                                      j \in {k \in 1..Len(prev_ids) :
                                                ~is_good[k]}}
                           /\ IF tracked.raised
                              THEN \* prev_ids[point_index] out of range
                                   /\ pc' = "error"
                                   /\ error' = "IndexError:126"
                                   /\ UNCHANGED
                                        <<frame_index, prev_ids, prev_points,
                                          builder_corners, calls, progress_n,
                                          new_points_filtered, issued,
                                          detected_any, new_points,
                                          twin_corners, twin_n>>
                              ELSE IF update /\ tracked.ids = <<>>
                              THEN \* ids[-1] of an empty list
                                   /\ pc' = "error"
                                   /\ error' = "IndexError:140"
                                   /\ new_points_filtered' = accepted
                                   /\ new_points' = detected
                                   /\ detected_any' =
                                          (detected_any \/ raw # <<>>)
                                   /\ UNCHANGED
                                        <<frame_index, prev_ids, prev_points,
                                          builder_corners, calls, progress_n,
                                          issued, twin_corners, twin_n>>
                              ELSE /\ set_corners_at_frame(frame_index,
                                                           new_corners)
                                   /\ new_points_filtered' = accepted
                                   /\ new_points' =
                                          IF update THEN detected
                                          ELSE new_points
                                   /\ detected_any' =
                                          (detected_any \/
                                              (update /\ raw # <<>>))
                                   /\ prev_ids' = ids
                                   /\ prev_points' = new_corners.points
                                   /\ issued' = issued \cup
                                          {ids[k] : k \in 1..Len(ids)}
                                   /\ frame_index' = frame_index + 1
                                   /\ pc' = IF frame_index + 1 < NumFrames
                                            THEN "tracking" ELSE "return"
                                   /\ error' = error
    /\ UNCHANGED <<NumFrames, progress, storage, twin_storage, dd_vars,
                   py_vars>>

\* variant of build: build_corner_storage() in a finally clause, so that
\* it also runs when _build_impl raised
BuildCornerStorageInFinally ==
    /\ pc \in {"return", "error"}
    /\ storage' = sorted_items(builder_corners, DOMAIN builder_corners)
    /\ twin_storage' = sorted_items(twin_corners, DOMAIN twin_corners)
    /\ pc' = "done"
    /\ UNCHANGED <<NumFrames, progress, error, frame_index, prev_ids,
                   prev_points, builder_corners, calls, progress_n,
                   optical_flow, diff, new_points_filtered, issued, retired,
                   detected_any, shape_mismatch, flow_invoked, new_points,
                   twin_corners, twin_n, dd_vars, py_vars>>

\* build: _build_impl returned, builder.build_corner_storage()
BuildCornerStorage ==
    /\ pc = "return"
    /\ storage' = sorted_items(builder_corners, DOMAIN builder_corners)
    /\ twin_storage' = sorted_items(twin_corners, DOMAIN twin_corners)
    /\ pc' = "done"
    /\ UNCHANGED <<NumFrames, progress, error, frame_index, prev_ids,
                   prev_points, builder_corners, calls, progress_n,
                   optical_flow, diff, new_points_filtered, issued, retired,
                   detected_any, shape_mismatch, flow_invoked, new_points,
                   twin_corners, twin_n, dd_vars, py_vars>>

Next == DetectFirstFrame \/ TrackFrame \/ BuildCornerStorage

Spec == Init /\ [][Next]_vars

---------------------------------------------------------------------------
(* Deduplicator harness                                                    *)

FilterOnce ==
    /\ dd_pc = "input"
    /\ dd_result' = filter_close_corners(dd_corners, dd_radius)
    /\ dd_pc' = "once"
    /\ UNCHANGED <<dd_corners, dd_radius, dd_again, track_vars, py_vars>>

FilterAgain ==
    /\ dd_pc = "once"
    /\ dd_again' = filter_close_corners(dd_result, dd_radius)
    /\ dd_pc' = "twice"
    /\ UNCHANGED <<dd_corners, dd_radius, dd_result, track_vars, py_vars>>

NextDedup == FilterOnce \/ FilterAgain

SpecDedup == InitDedup /\ [][NextDedup]_vars

---------------------------------------------------------------------------
(* _build_pyramid_for_frame                                                *)

\* out = [frame]; diminished_frame = _diminish_frame_size(frame)
PyramidStart ==
    /\ py_pc = "start"
    /\ py_out' = <<py_frame>>
    /\ py_diminished' = diminish_frame_size(py_frame)
    /\ py_pc' = "loop"
    /\ UNCHANGED <<py_frame, py_result, track_vars, dd_vars>>

\* one pass of the while loop; beyond MaxLevels entries the list is cut
PyramidLoop ==
    /\ py_pc = "loop"
    /\ frame_is_large_enough(py_diminished, py_frame)
    /\ Len(py_out) < MaxLevels
    /\ py_out' = Append(py_out, py_diminished)
    /\ py_diminished' = diminish_frame_size(py_diminished)
    /\ UNCHANGED <<py_pc, py_frame, py_result, track_vars, dd_vars>>

\* the loop condition failed: return list(reversed(out))
PyramidReturn ==
    /\ py_pc = "loop"
    /\ ~frame_is_large_enough(py_diminished, py_frame)
    /\ py_result' = reversed(py_out)
    /\ py_pc' = "done"
    /\ UNCHANGED <<py_frame, py_out, py_diminished, track_vars, dd_vars>>

NextPyramid == PyramidStart \/ PyramidLoop \/ PyramidReturn

SpecPyramid == InitPyramid /\ [][NextPyramid]_vars

---------------------------------------------------------------------------
(* Properties of the tracking loop, checked under Spec                     *)

IdsOf(frame_corners) ==
    {frame_corners.ids[k] : k \in 1..Len(frame_corners.ids)}

\* a tracking step has run to its end and emitted frame frame_index - 1
StepEmitted == error = "none" /\ frame_index >= 2

\* the frame the last step started from, and the frame it emitted
PrevFrame == builder_corners[frame_index - 2]

\* the run so far met no input error: there is a frame 0 and no frame
\* handled so far differs from it in size
InputValid == NumFrames >= 1 /\ ~shape_mismatch

CurFrame == builder_corners[frame_index - 1]

\* C1: an id whose track failed validation at frame i is in the corner set
\* of no frame emitted for index i or later.
C1_NoIdReuse ==
    \A r \in retired : \A f \in DOMAIN builder_corners :
        f >= r[2] => r[1] \notin IdsOf(builder_corners[f])

C3_FreshIdsAboveAllIssued ==
    [][/\ (pc = "init" /\ pc' # "init") =>
              prev_ids' = [k \in 1..Len(prev_points') |-> k - 1]
       /\ (pc = "tracking" /\ frame_index' = frame_index + 1) =>
              LET n_tracked == Len(prev_points') - Len(new_points_filtered')
                  kept == {prev_ids'[k] : k \in 1..n_tracked}
                  fresh == SubSeq(prev_ids', n_tracked + 1, Len(prev_ids'))
              IN /\ \A k \in 1..(Len(fresh) - 1) : fresh[k] < fresh[k + 1]
                 /\ fresh # <<>> => fresh[1] = SetMax(issued) + 1
                 /\ \A k \in 1..Len(prev_ids') :
                        prev_ids'[k] \in kept \/ prev_ids'[k] \notin issued
      ]_vars

\* C4: the frame handed to the builder at i > 0 has one id per point, and
\* as many fresh ids as newly accepted points.
C4_OneIdPerAcceptedPoint ==
    StepEmitted =>
        LET n_tracked == Len(CurFrame.points) - Len(new_points_filtered)
        IN /\ Len(CurFrame.ids) = Len(CurFrame.points)
           /\ Len(CurFrame.ids) - n_tracked = Len(new_points_filtered)

\* C5: set_corners_at_frame is called for 0, 1, 2, ... in this order; when
\* the run has ended it was called for every index below NumFrames, and the
\* storage holds the NumFrames corner sets in frame order.
C5_OneCallPerFrameInOrder ==
    /\ calls = RangeSeq(0, Len(calls))
    /\ (InputValid /\ pc \in {"return", "done", "error"}) =>
           Len(calls) = NumFrames
    /\ pc = "done" =>
           /\ Len(storage) = NumFrames
           /\ \A k \in 1..NumFrames : storage[k] = builder_corners[k - 1]

\* C6: a tracking step in which every track of a non-empty previous set
\* fails validation raises nothing and emits exactly the replenished
\* corners, each with an id.
C6_TrackingFailureIsAbsorbed ==
    (/\ InputValid
     /\ pc = "error" \/ frame_index >= 2
     /\ diff # <<>>
     /\ \A j \in 1..Len(diff) : diff[j] >= SubPx) =>
        /\ error = "none"
        /\ CurFrame.points = new_points_filtered
        /\ Len(CurFrame.ids) = Len(CurFrame.points)

\* C7: while no detection call has yielded a candidate the run raises
\* nothing, and it ends with NumFrames empty corner sets in the storage.
C7_DetectionFailureIsAbsorbed ==
    (InputValid /\ ~detected_any) =>
        /\ pc # "error"
        /\ pc = "done" =>
               /\ Len(storage) = NumFrames
               /\ \A k \in 1..NumFrames :
                      storage[k].points = <<>> /\ storage[k].ids = <<>>

\* the run met an input error: the sequence is empty, or a frame handled
\* so far differs in size from frame 0
InputError == (NumFrames = 0 /\ pc # "init") \/ shape_mismatch

PixelOf(point) == <<ToInt32(point[1]), ToInt32(point[2])>>

\* pixel q lies in the square of half-width CORNER_MIN_DISTANCE_PX around
\* pixel t
InSquare(q, t) ==
    /\ Abs(q[1] - t[1]) <= CORNER_MIN_DISTANCE_PX
    /\ Abs(q[2] - t[2]) <= CORNER_MIN_DISTANCE_PX

\* pixel q of the image lies in the square around t, or on the first
\* column (row) while the square ends left of (above) the image
InClampedSquare(q, t) ==
    /\ \/ Abs(q[1] - t[1]) <= CORNER_MIN_DISTANCE_PX
       \/ q[1] = 0 /\ t[1] + CORNER_MIN_DISTANCE_PX < 0
    /\ \/ Abs(q[2] - t[2]) <= CORNER_MIN_DISTANCE_PX
       \/ q[2] = 0 /\ t[2] + CORNER_MIN_DISTANCE_PX < 0

\* the points of the frame emitted last that came through tracking
Survivors ==
    SubSeq(CurFrame.points, 1,
           Len(CurFrame.points) - Len(new_points_filtered))

\* C12: in a frame emitted at i > 0 no accepted new point has its pixel in
\* the exclusion square of a corner that survived tracking into this frame,
\* and a detected point is turned down only for a survivor of this very
\* frame (the mask starts fully allowed at each frame).
C12_ReplenishmentOnlyInUncoveredRegions ==
    StepEmitted =>
        /\ \A k \in 1..Len(new_points_filtered) :
               \A j \in 1..Len(Survivors) :
                   ~InSquare(PixelOf(new_points_filtered[k]),
                             PixelOf(Survivors[j]))
        /\ \A k \in 1..Len(new_points) :
               (\A m \in 1..Len(new_points_filtered) :
                    new_points_filtered[m] # new_points[k]) =>
                   \E j \in 1..Len(Survivors) :
                       InClampedSquare(PixelOf(new_points[k]),
                                       PixelOf(Survivors[j]))

\* a frame with a survivor, an accepted new point and a detected point
\* that was turned down
C12_Witness ==
    /\ StepEmitted
    /\ Len(Survivors) >= 1
    /\ Len(new_points_filtered) >= 1
    /\ Len(new_points) > Len(new_points_filtered)

\* the last step ran on an empty previous corner set
StepFromEmptySet ==
    /\ InputValid
    /\ \/ StepEmitted /\ PrevFrame.points = <<>>
       \/ /\ error \in {"IndexError:126", "IndexError:140"}
          /\ prev_points = <<>>

\* C13: a tracking step on an empty previous corner set enters neither
\* optical-flow call, and what it emits holds no survivor.
C13_EmptyPreviousSetSkipsFlow ==
    StepFromEmptySet =>
        /\ flow_invoked = 0
        /\ StepEmitted => Survivors = <<>>

\* C15: the progress indicator has received exactly 1 per emitted frame,
\* and the builder made with the other progress flag holds and returns the
\* same corner sets for the same frames and primitive outcomes.
C15_ProgressIsASideChannel ==
    /\ progress_n = (IF progress THEN Len(calls) ELSE 0)
    /\ twin_n = (IF progress THEN 0 ELSE Len(calls))
    /\ twin_corners = builder_corners
    /\ twin_storage = storage

\* a finished run of three frames in which the indicator counted
C15_Witness ==
    /\ pc = "done"
    /\ NumFrames = MaxFrames
    /\ progress /\ progress_n = NumFrames /\ twin_n = 0
    /\ Len(storage) = NumFrames

\* C16: in every frame handed to the builder the ids strictly increase
\* along the list, so they are pairwise distinct and the last is the
\* largest.
C16_IdsStrictlyIncrease ==
    \A f \in 0..(Len(calls) - 1) :
        LET ids == builder_corners[f].ids
        IN \A a, b \in 1..Len(ids) : a < b => ids[a] < ids[b]

\* a frame at i > 0 whose id list holds a survivor's id and a fresh id
C16_Witness ==
    /\ StepEmitted
    /\ Len(Survivors) >= 1
    /\ Len(CurFrame.ids) > Len(Survivors)

\* C17: when a tracking step starts, prev_ids and prev_points are the ids
\* and points emitted for the previous frame, equally long, and no step
\* reads prev_ids outside its index range.
C17_RetainedStateIsAligned ==
    /\ pc = "tracking" =>
           /\ Len(prev_ids) = Len(prev_points)
           /\ prev_ids = builder_corners[frame_index - 1].ids
           /\ prev_points = builder_corners[frame_index - 1].points
    /\ error # "IndexError:126"

---------------------------------------------------------------------------
(* Properties of the deduplicator, checked under SpecDedup                 *)

\* every two input points lie within the radius of each other
AllPairwiseClose ==
    \A i, j \in 1..Len(dd_corners) :
        Abs(dd_corners[i][1] - dd_corners[j][1])
            + Abs(dd_corners[i][2] - dd_corners[j][2]) <= dd_radius

\* lying within the radius of each other is transitive on the input
CloseIsTransitive ==
    LET close(i, j) ==
            Abs(dd_corners[i][1] - dd_corners[j][1])
                + Abs(dd_corners[i][2] - dd_corners[j][2]) <= dd_radius
    IN \A i, j, k \in 1..Len(dd_corners) :
           close(i, j) /\ close(j, k) => close(i, k)

\* C8: a non-empty input whose points are pairwise within the radius
\* collapses to one point, the one with the highest input index.
C8_ClusterCollapses ==
    (dd_pc \in {"once", "twice"} /\ dd_corners # <<>> /\ AllPairwiseClose) =>
        dd_result = <<dd_corners[Len(dd_corners)]>>

\* C9 as stated: filtering the output again returns the output.
C9_Idempotent == dd_pc = "twice" => dd_again = dd_result

\* C9 as amended: filtering the output again returns the output whenever
\* lying within the radius of each other is transitive on the input.
C9_IdempotentOnTransitiveInput ==
    (dd_pc = "twice" /\ CloseIsTransitive) => dd_again = dd_result

\* an input of transitive closeness in which some points merge, some don't
C9_Witness ==
    /\ dd_pc = "twice"
    /\ CloseIsTransitive
    /\ ~AllPairwiseClose
    /\ \E i, j \in 1..Len(dd_corners) :
           /\ dd_corners[i] # dd_corners[j]
           /\ Manhattan(dd_corners[i], dd_corners[j]) <= dd_radius

\* C10: no two entries of the output are equal.
C10_NoDuplicateOutput ==
    dd_pc \in {"once", "twice"} =>
        \A a, b \in 1..Len(dd_result) : a # b => dd_result[a] # dd_result[b]

---------------------------------------------------------------------------
(* Properties of the pyramid builder, checked under SpecPyramid            *)

\* C14: _build_pyramid_for_frame terminates (its loop never holds a frame
\* that passes the size test and that halving leaves as it is, so that the
\* loop could not end) and the list it returns is not empty, runs from the
\* coarsest level to the frame itself, holds besides the frame only levels
\* with both sides above a quarter of min(H, W), and halving its coarsest
\* level once more gives a side at or below that quarter.
C14_PyramidIsBuilt ==
    LET quarter4 == Min2(py_frame[1], py_frame[2])
        n == Len(py_result)
    IN /\ py_pc = "loop" =>
              ~(/\ frame_is_large_enough(py_diminished, py_frame)
                /\ diminish_frame_size(py_diminished) = py_diminished)
       /\ py_pc = "done" =>
              /\ n >= 1
              /\ py_result[n] = py_frame
              /\ \A k \in 1..(n - 1) :
                     /\ py_result[k][1] <= py_result[k + 1][1]
                     /\ py_result[k][2] <= py_result[k + 1][2]
                     /\ py_result[k][1] * 4 > quarter4
                     /\ py_result[k][2] * 4 > quarter4
              /\ LET further == diminish_frame_size(py_result[1])
                 IN further[1] * 4 <= quarter4 \/ further[2] * 4 <= quarter4

=============================================================================
